---- MODULE Spec2Model ----
(***************************************************************************)
(* Error Galaxy Shooter (src/static/js/game.js): the Game object, the      *)
(* browser's frame scheduler, timers, visibility and pointer events.       *)
(*                                                                         *)
(* Units.  Lengths are fixed point, in tenths of a CSS pixel (U per px).   *)
(* Times are integer milliseconds.  Math.random() returns rv/10 for a      *)
(* draw rv in 0..9.  Alpha is in thousandths.                              *)
(***************************************************************************)
EXTENDS Integers, Sequences, FiniteSets, TLC

(* ------------------------------ bounds --------------------------------- *)
\* the wall clock (performance.now()) stops advancing at MaxClock
MaxClock == 640
MaxClockSched == 80
MaxClockWin == 630
MaxClockFire == 280
MaxClockAim == 80
MaxClockDecay == 1540
\* reset() is offered only while fewer than MaxTimers show-overlay timers are pending
MaxTimers == 2

(* --------------------------- input domains ----------------------------- *)
\* amounts of wall-clock time that pass between two events, in ms
Steps == {20, 140}
\* the same for the scheduling runs: within maxDeltaMs, and beyond it
StepsSched == {20, 60}
\* the same for the runs to a win: beyond the cooldown, and the overlay's delay
StepsWin == {140, 350}
StepsFire == {120, 140}
StepsDecay == {140}
\* how far the frame timestamp handed to loop() may lie before now(), in ms
FrameLags == {0, 5}
\* window.innerWidth x window.innerHeight, in px
Viewports == {<<40, 30>>, <<60, 20>>}
\* e.clientX of pointer events, in px (outside the canvas on both sides too)
ClientXs == {-10, 50, 70}
\* draws of Math.random(), in tenths
RandVals == {0, 5}
HueDraws == {0, 5, 9}
\* values of the two hue properties of the page style
Themes == {[min |-> a, max |-> b] : a \in {<< >>, <<0>>, <<340>>},
                                    b \in {<< >>, <<0>>, <<20>>, <<300>>}}

(* ------------------------ program constants ---------------------------- *)
U == 10
backgroundStarDensity == 18000
shootIntervalMs == 120
shakeDurationMs == 150
maxDeltaMs == 40
bulletRadius == 4
bulletSpeedMin == 400
\* bulletSpeedFactor 0.7, in tenths
bulletSpeedFactor == 7
\* playerLerp 0.18, in hundredths
playerLerp == 18
\* gravity 400 * 0.3 px/s^2
gravity == 120
pieceStep == 9
alphaThreshold == 80
radiusMin == 3
radiusRand == 2
\* the delay of the show-overlay timer, in ms
overlayDelayMs == 350
\* the intensity triggerShake() sets
shakeIntensityHit == 7
\* the defaults of --piece-hue-min / --piece-hue-max
hueMinDefault == 180
hueMaxDefault == 300
\* CONFIG.text defaults to the error code "404": three glyphs
textLen == 3
\* canvas.getBoundingClientRect().left: the canvas starts at the window's left edge
rectLeft == 0

(* ------------------------------ helpers -------------------------------- *)
Max(a, b) == IF a >= b THEN a ELSE b
Min(a, b) == IF a <= b THEN a ELSE b
\* ceiling of a / b for b > 0
CeilDiv(a, b) == -((-a) \div b)

\* const clamp = (v, min, max) => Math.max(min, Math.min(max, v))
clampNoMin(v, lo, hi) == Min(hi, v)
clamp(v, lo, hi) == Max(lo, Min(hi, v))

\* const lerp = (a, b, t) => a + (b - a) * t, t in hundredths
lerp(a, b, t) == a + ((b - a) * t) \div 100

NoPlayer == [none |-> TRUE]

(* ------------------------------ state ---------------------------------- *)
VARIABLES
  \* the Game object
  width, height, player, stars, pieces, bullets, particles,
  pointerX, pointerDown, globalTime, lastShotAt, lastFrameAt,
  shakeMs, shakeIntensity, rafId, isRunning, isGameOver,
  \* the page around it
  phase,            \* "idle" (constructed), "started", "stopped"
  listening,        \* attachEvents() has run and detachEvents() has not
  clock,            \* performance.now()
  frameTs,          \* the timestamp of the latest frame the browser has run
  hidden,           \* document.hidden
  innerSize,        \* <<window.innerWidth, window.innerHeight>>
  pending,          \* handles of the frame callbacks that are scheduled
  timers,           \* due times of the pending show-overlay timers
  overlayVisible,   \* the overlay carries the class is-visible
  prefersReducedMotion,
  theme,            \* --piece-hue-min / --piece-hue-max of the page style: <<n>>, or << >> when absent
  \* what the latest step did, and what the steps since the latest resume did
  last, resume

gameVars == <<width, height, player, stars, pieces, bullets, particles,
              pointerX, pointerDown, globalTime, lastShotAt, lastFrameAt,
              shakeMs, shakeIntensity, rafId, isRunning, isGameOver>>
envVars == <<phase, listening, clock, frameTs, hidden, innerSize, pending,
             timers, overlayVisible, prefersReducedMotion, theme>>
vars == <<gameVars, envVars, last, resume>>

(* ----------------------------- factories ------------------------------- *)
\* createStars(): count stars, every coordinate one draw of Math.random()
createStars(w, h, rv) ==
  LET count == (w * h) \div backgroundStarDensity
  IN [i \in 1..count |->
        [x |-> (rv * w * U) \div 10, y |-> (rv * h * U) \div 10,
         r |-> (rv * 15) \div 10 + 3, tw |-> (rv * 6283) \div 10]]

\* createPlayer()
createPlayerAtLeft(w, h) ==
  [x |-> 0, y |-> (h * U * 85) \div 100, w |-> 50 * U, h |-> 18 * U, targetX |-> 0]
createPlayer(w, h) ==
  [x |-> (w * U) \div 2,
   y |-> (h * U * 85) \div 100,
   w |-> Max(50 * U, (w * U * 5) \div 100),
   h |-> Max(18 * U, (h * U * 25) \div 1000),
   targetX |-> (w * U) \div 2]

\* offCtx.measureText(CONFIG.text).width, in thousandths of a px, for a font
\* of fs thousandths: every glyph advances half an em
measureText(fs) == (fs * textLen) \div 2

\* the alpha channel getImageData() returns at (x, y) of the box of the
\* measured text: the text is painted opaque white over a cleared bitmap
imageAlpha(x, y) == 255

\* the hue of one piece for a draw rv of Math.random()
\* parseInt(style.getPropertyValue(name).trim()) || dflt
hueOr(v, dflt) == IF v = << >> \/ v[1] = 0 THEN dflt ELSE v[1]
NoTheme == [min |-> << >>, max |-> << >>]
pieceHue(hueMin, hueMax, rv) ==
  IF hueMin > hueMax
    THEN (hueMin + (rv * ((360 - hueMin) + hueMax)) \div 10) % 360
    ELSE hueMin + (rv * (hueMax - hueMin)) \div 10

\* the sample points x = 0, step, 2*step, ... < n
GridSamples(n) == {k \in 0..(n - 1) : k % pieceStep = 0}

\* the pieces sampled from the rasterized text (create404Pieces past the
\* offscreen context test)
rasterPieces(w, h, rv) ==
  LET m        == Min(w, h)
      fontSize == m * 350
      cx       == w * 500
      cy       == h * 450
      textWidth  == measureText(fontSize)
      textHeight == (fontSize * 9) \div 10
      startX == Max(0, (2 * cx - textWidth) \div 2000)
      endX   == Min(w, CeilDiv(2 * cx + textWidth, 2000))
      startY == Max(0, (2 * cy - textHeight) \div 2000)
      endY   == Min(h, CeilDiv(2 * cy + textHeight, 2000))
      imgW   == endX - startX
      imgH   == endY - startY
      cols   == Cardinality(GridSamples(imgW))
      rows   == Cardinality(GridSamples(imgH))
      \* the samples in the order the two loops visit them, with their alpha
      samples == [i \in 1..(rows * cols) |->
                    [x |-> ((i - 1) % cols) * pieceStep,
                     y |-> ((i - 1) \div cols) * pieceStep,
                     alpha |-> imageAlpha(((i - 1) % cols) * pieceStep,
                                          ((i - 1) \div cols) * pieceStep)]]
  IN LET opaque == SelectSeq(samples, LAMBDA c : c.alpha > alphaThreshold)
     IN [k \in 1..Len(opaque) |->
           [x |-> (startX + opaque[k].x) * U + (2 * rv - 10),
            y |-> (startY + opaque[k].y) * U + (2 * rv - 10),
            r |-> radiusMin * U + rv * radiusRand,
            color |-> pieceHue(hueOr(theme.min, hueMinDefault),
                               hueOr(theme.max, hueMaxDefault), rv)]]

\* create404Pieces(): the pieces in the order they are pushed (row by row);
\* ctxOk is whether off.getContext("2d") returned a context
create404PiecesKeep(w, h, ctxOk, rv) ==
  IF ~ctxOk THEN pieces ELSE rasterPieces(w, h, rv)
create404Pieces(w, h, ctxOk, rv) ==
  IF ~ctxOk THEN << >> ELSE rasterPieces(w, h, rv)

\* spawnBullet(): the bullets with the new one pushed
spawnBullet(bs, p, h) ==
  LET speed == (9 * Max(bulletSpeedMin * U, (h * U * bulletSpeedFactor) \div 10)) \div 10
  IN Append(bs, [x |-> p.x, y |-> p.y - p.h \div 2, vy |-> -speed, r |-> bulletRadius * U])

\* cos and sin of Math.random() * 2 * PI for the draw rv, in thousandths
cosT(rv) == <<1000, 809, 309, -309, -809, -1000, -809, -309, 309, 809>>[rv + 1]
sinT(rv) == <<0, 588, 951, 951, 588, 0, -588, -951, -951, -588>>[rv + 1]

\* spawnExplosion(x, y, baseColor): the particles one burst pushes
burstMin == 12
spawnExplosion(x, y, baseColor, rv) ==
  LET count == burstMin + rv
      speed == (50 + (rv * 200) \div 10) * U
  IN [i \in 1..count |->
        [x |-> x, y |-> y,
         vx |-> (cosT(rv) * speed) \div 1000,
         vy |-> (sinT(rv) * speed) \div 1000,
         life |-> 400 + rv * 50,
         age |-> 0, alpha |-> 1000, color |-> baseColor]]

(* ------------------------------ update --------------------------------- *)
\* the player follows its target and is clamped (update, "Player segue o alvo")
followTarget(p, w) ==
  [p EXCEPT !.x = clamp(lerp(p.x, p.targetX, playerLerp), p.w \div 2, w * U - p.w \div 2)]

\* the condition of continuous fire, now being performance.now()
canShootNoCooldown(over, down, now, shotAt) ==
  ~over /\ down
canShoot(over, down, now, shotAt) ==
  ~over /\ down /\ now - shotAt > shootIntervalMs

\* a bullet after dt ms
moveBullet(b, dt) == [b EXCEPT !.y = b.y + (b.vy * dt) \div 1000]

\* the bullet loop: every bullet moves, those wholly above the top edge go
offTopNever(b) == FALSE
offTop(b) == b.y + b.r < 0
moveBullets(bs, dt) ==
  LET moved == [i \in 1..Len(bs) |-> moveBullet(bs[i], dt)]
  IN SelectSeq(moved, LAMBDA b : ~offTop(b))

\* the circle test of the collision loop
overlaps(b, p) ==
  LET dx == b.x - p.x
      dy == b.y - p.y
      rr == b.r + p.r
  IN dx * dx + dy * dy <= rr * rr

\* the piece bullet b destroys: the overlapping piece of the highest index
\* among those not yet spliced out (gone), or 0 when the scan finds none
firstMatch(b, ps, gone) ==
  LET cand == {j \in 1..Len(ps) : j \notin gone /\ overlaps(b, ps[j])}
  IN IF cand = {} THEN 0 ELSE CHOOSE j \in cand : \A k \in cand : k <= j

\* the collision loop from bullet i down to bullet 1: hits lists, in the order
\* they happen, the <<bullet index, piece index>> pairs spliced out.  A splice
\* at the loop's own index i leaves the bullets below i in place, so indices
\* are those of bs and ps as they stand when the loop starts.
RECURSIVE collide(_, _, _, _)
collide(i, bs, ps, hits) ==
  IF i = 0 THEN hits
  ELSE LET gone == {hits[k][2] : k \in 1..Len(hits)}
           j    == firstMatch(bs[i], ps, gone)
       IN IF j = 0 THEN collide(i - 1, bs, ps, hits)
          ELSE collide(i - 1, bs, ps, Append(hits, <<i, j>>))

\* s without the elements whose index is in gone
Without(s, gone) ==
  LET tagged == [i \in 1..Len(s) |-> <<i, s[i]>>]
  IN LET kept == SelectSeq(tagged, LAMBDA t : t[1] \notin gone)
     IN [k \in 1..Len(kept) |-> kept[k][2]]

\* the particles all bursts of one tick push, in the order of the hits
RECURSIVE explosions(_, _, _, _)
explosions(k, hits, ps, rv) ==
  IF k > Len(hits) THEN << >>
  ELSE LET p == ps[hits[k][2]]
       IN spawnExplosion(p.x, p.y, p.color, rv) \o explosions(k + 1, hits, ps, rv)

\* one particle after dt ms (the loop removes it when expired holds of it)
ageParticleOpaque(pa, dt) ==
  [pa EXCEPT !.age = pa.age + dt,
             !.x = pa.x + (pa.vx * dt) \div 1000,
             !.y = pa.y + (pa.vy * dt) \div 1000]
ageParticle(pa, dt) ==
  LET age == pa.age + dt
  IN [pa EXCEPT !.age = age,
                !.alpha = (1000 * (pa.life - age)) \div pa.life,
                !.x = pa.x + (pa.vx * dt) \div 1000,
                !.y = pa.y + (pa.vy * dt) \div 1000,
                !.vy = pa.vy + (gravity * U * dt) \div 1000]
expired(pa, dt) == pa.age + dt >= pa.life
updateParticles(pas, dt) ==
  LET live == SelectSeq(pas, LAMBDA pa : ~expired(pa, dt))
  IN [i \in 1..Len(live) |-> ageParticle(live[i], dt)]

\* triggerShake(): the shake duration after a hit
triggerShake(ms, reduced) == IF reduced THEN ms ELSE shakeDurationMs
\* the shake step of update
decayShake(ms, dt) == IF ms > 0 THEN Max(0, ms - dt) ELSE ms

\* const dt = Math.min(dtMs, CONFIG.maxDeltaMs)
clampDelta(dtMs) == Min(dtMs, maxDeltaMs)

\* the victory test of update
victoryUnlatched(over, ps) == Len(ps) = 0
victory(over, ps) == ~over /\ Len(ps) = 0

(* ----------------------------- scheduler ------------------------------- *)
\* requestAnimationFrame returns a handle that names no callback yet
newHandle == CHOOSE h \in 1..(Cardinality(pending) + 2) :
               /\ h \notin pending \cup {rafId}
               /\ \A g \in 1..(h - 1) : g \in pending \cup {rafId}

\* what a step that is no frame leaves in last
Quiet(op) ==
  [op |-> op, dt |-> 0, base |-> 0, ts |-> 0, fired |-> FALSE,
   colB |-> << >>, colP |-> << >>, hits |-> << >>, armed |-> FALSE,
   resumed |-> FALSE, resumeAt |-> 0, resumeReset |-> FALSE, resumePrev |-> 0,
   nPart |-> 0, ctxOk |-> TRUE, sounds |-> 0, captured |-> TRUE]

\* no resume is waiting for its first frame; at is the time of the latest
\* visibility-visible event no frame has followed yet, prev the baseline that
\* event found (the frame before hiding), reset whether reset() ran since
NoResume == [at |-> -1, reset |-> FALSE, prev |-> 0]

\* the calls of playBubbleSound() in a tick: one in every hit
cuesNone(hits) == 0
cues(hits) == Len(hits)

\* the pieces and the bullets once the hits of a tick are spliced out
splicePiecesDup(ps, hits) == ps \o [k \in 1..Len(hits) |-> ps[hits[k][2]]]
spliceBulletsKeep(bs, hits) == bs
splicePieces(ps, hits) == Without(ps, {hits[k][2] : k \in 1..Len(hits)})
spliceBullets(bs, hits) == Without(bs, {hits[k][1] : k \in 1..Len(hits)})

\* loop(ts) goes on past its first line
loopRunsAlways(running) == TRUE
loopRuns(running) == running

\* the baseline onVisibilityChange stores when the page is shown again
resumeBaselineStale(now, prev) == prev
resumeBaseline(now, prev) == now

\* getCanvasRelativeX(clientX), in tenths of a px
getCanvasRelativeX(clientX) == (clientX - rectLeft) * U

(* ------------------------------- Init ---------------------------------- *)
\* new Game(canvas, ctx), in a window of one of the sizes vps, on a page whose
\* document.hidden is one of hids and whose reduced-motion preference one of red
InitOfTheme(vps, hids, red, themes) ==
  /\ innerSize \in vps
  /\ width = innerSize[1] /\ height = innerSize[2]
  /\ player = NoPlayer
  /\ stars = << >> /\ pieces = << >> /\ bullets = << >> /\ particles = << >>
  /\ pointerX = (width * U) \div 2 /\ pointerDown = FALSE
  /\ globalTime = 0 /\ lastShotAt = 0 /\ lastFrameAt = 0
  /\ shakeMs = 0 /\ shakeIntensity = 0
  /\ rafId = 0 /\ isRunning = FALSE /\ isGameOver = FALSE
  /\ phase = "idle" /\ listening = FALSE
  /\ clock = 0 /\ frameTs = 0
  /\ hidden \in hids
  /\ pending = {} /\ timers = << >>
  /\ overlayVisible = FALSE
  /\ prefersReducedMotion \in red
  /\ theme \in themes
  /\ last = Quiet("new") /\ resume = NoResume

\* the same on a page whose style sets neither hue property
InitOf(vps, hids, red) == InitOfTheme(vps, hids, red, {NoTheme})

Init == InitOf(Viewports, BOOLEAN, BOOLEAN)

(* ------------------------------ actions -------------------------------- *)
\* wall-clock time passes
AdvanceTime(d, cap) ==
  /\ clock + d <= cap
  /\ clock' = clock + d
  /\ last' = Quiet("time")
  /\ UNCHANGED <<gameVars, phase, listening, frameTs, hidden, innerSize, pending,
                 timers, overlayVisible, prefersReducedMotion, theme, resume>>

\* game.start()
Start(ctxOk, rv) ==
  /\ phase = "idle"
  /\ phase' = "started"
  /\ isRunning' = TRUE /\ isGameOver' = FALSE
  /\ overlayVisible' = FALSE
  /\ stars' = createStars(width, height, rv)
  /\ player' = createPlayer(width, height)
  /\ pieces' = create404Pieces(width, height, ctxOk, rv)
  /\ listening' = TRUE
  /\ lastFrameAt' = clock
  /\ rafId' = newHandle /\ pending' = pending \cup {newHandle}
  /\ last' = [Quiet("start") EXCEPT !.ctxOk = ctxOk]
  /\ UNCHANGED <<width, height, bullets, particles, pointerX, pointerDown, globalTime,
                 lastShotAt, shakeMs, shakeIntensity, clock, frameTs, hidden, innerSize,
                 timers, prefersReducedMotion, theme, resume>>

\* game.stop()
Stop ==
  /\ phase = "started"
  /\ phase' = "stopped"
  /\ isRunning' = FALSE
  /\ pending' = IF rafId # 0 THEN pending \ {rafId} ELSE pending
  /\ rafId' = 0
  /\ listening' = FALSE
  /\ last' = Quiet("stop")
  /\ UNCHANGED <<width, height, player, stars, pieces, bullets, particles, pointerX,
                 pointerDown, globalTime, lastShotAt, lastFrameAt, shakeMs, shakeIntensity,
                 isGameOver, clock, frameTs, hidden, innerSize, timers, overlayVisible,
                 prefersReducedMotion, theme, resume>>

\* game.reset(), from the restart button, the overlay's keys or any other caller
Reset(ctxOk, rv) ==
  /\ phase # "idle"
  /\ Len(timers) < MaxTimers
  /\ bullets' = << >> /\ particles' = << >>
  /\ pointerX' = (width * U) \div 2 /\ pointerDown' = FALSE
  /\ globalTime' = 0 /\ lastShotAt' = 0 /\ lastFrameAt' = clock
  /\ shakeMs' = 0 /\ shakeIntensity' = 0
  /\ isGameOver' = FALSE
  /\ stars' = createStars(width, height, rv)
  /\ player' = createPlayer(width, height)
  /\ pieces' = create404Pieces(width, height, ctxOk, rv)
  /\ overlayVisible' = FALSE
  /\ last' = [Quiet("reset") EXCEPT !.ctxOk = ctxOk]
  /\ resume' = IF resume.at >= 0 THEN [resume EXCEPT !.reset = TRUE] ELSE resume
  /\ UNCHANGED <<width, height, rafId, isRunning, phase, listening, clock, frameTs,
                 hidden, innerSize, pending, timers, prefersReducedMotion, theme>>

\* the window is resized; onResize() runs while the listeners are attached
Resize(vp, ctxOk, rv) ==
  /\ phase # "idle"
  /\ innerSize' = vp
  /\ last' = [Quiet("resize") EXCEPT !.ctxOk = ctxOk]
  /\ IF listening
       THEN /\ width' = vp[1] /\ height' = vp[2]
            /\ player' = IF player # NoPlayer
                           THEN [player EXCEPT !.y = (vp[2] * U * 85) \div 100]
                           ELSE player
            /\ stars' = createStars(vp[1], vp[2], rv)
            /\ pieces' = create404Pieces(vp[1], vp[2], ctxOk, rv)
       ELSE UNCHANGED <<width, height, player, stars, pieces>>
  /\ UNCHANGED <<bullets, particles, pointerX, pointerDown, globalTime, lastShotAt,
                 lastFrameAt, shakeMs, shakeIntensity, rafId, isRunning, isGameOver,
                 phase, listening, clock, frameTs, hidden, pending, timers,
                 overlayVisible, prefersReducedMotion, theme, resume>>

\* the page becomes hidden; onVisibilityChange() runs while the listeners are attached
Hide ==
  /\ phase # "idle"
  /\ ~hidden
  /\ hidden' = TRUE
  /\ pending' = IF listening /\ isRunning THEN pending \ {rafId} ELSE pending
  /\ last' = Quiet("hide")
  /\ UNCHANGED <<gameVars, phase, listening, clock, frameTs, innerSize, timers,
                 overlayVisible, prefersReducedMotion, theme, resume>>

\* the page becomes visible; onVisibilityChange() runs while the listeners are attached
Show ==
  /\ phase # "idle"
  /\ hidden
  /\ hidden' = FALSE
  /\ last' = Quiet("show")
  /\ IF listening
       THEN /\ lastFrameAt' = resumeBaseline(clock, lastFrameAt)
            /\ rafId' = newHandle /\ pending' = pending \cup {newHandle}
            /\ resume' = [at |-> clock, reset |-> FALSE, prev |-> lastFrameAt]
       ELSE UNCHANGED <<lastFrameAt, rafId, pending, resume>>
  /\ UNCHANGED <<width, height, player, stars, pieces, bullets, particles, pointerX,
                 pointerDown, globalTime, lastShotAt, shakeMs, shakeIntensity, isRunning,
                 isGameOver, phase, listening, clock, frameTs, innerSize, timers,
                 overlayVisible, prefersReducedMotion, theme>>

\* pointermove on the canvas
PointerMoveNoTarget(clientX) ==
  /\ phase # "idle"
  /\ last' = Quiet("move")
  /\ pointerX' = IF listening THEN getCanvasRelativeX(clientX) ELSE pointerX
  /\ UNCHANGED <<width, height, player, stars, pieces, bullets, particles, pointerDown,
                 globalTime, lastShotAt, lastFrameAt, shakeMs, shakeIntensity, rafId,
                 isRunning, isGameOver, envVars, resume>>
PointerMove(clientX) ==
  /\ phase # "idle"
  /\ last' = Quiet("move")
  /\ IF listening
       THEN /\ pointerX' = getCanvasRelativeX(clientX)
            /\ player' = IF player # NoPlayer
                           THEN [player EXCEPT !.targetX = getCanvasRelativeX(clientX)]
                           ELSE player
       ELSE UNCHANGED <<pointerX, player>>
  /\ UNCHANGED <<width, height, stars, pieces, bullets, particles, pointerDown,
                 globalTime, lastShotAt, lastFrameAt, shakeMs, shakeIntensity, rafId,
                 isRunning, isGameOver, envVars, resume>>

\* pointerdown on the canvas; setPointerCapture() succeeds or throws, and the
\* handler swallows what it throws
PointerDown(clientX) ==
  /\ phase # "idle"
  /\ \E captured \in BOOLEAN : last' = [Quiet("down") EXCEPT !.captured = captured]
  /\ IF listening
       THEN /\ pointerDown' = TRUE
            /\ pointerX' = getCanvasRelativeX(clientX)
            /\ player' = IF player # NoPlayer
                           THEN [player EXCEPT !.targetX = getCanvasRelativeX(clientX)]
                           ELSE player
       ELSE UNCHANGED <<pointerDown, pointerX, player>>
  /\ UNCHANGED <<width, height, stars, pieces, bullets, particles, globalTime,
                 lastShotAt, lastFrameAt, shakeMs, shakeIntensity, rafId, isRunning,
                 isGameOver, envVars, resume>>

\* pointerup, pointercancel or pointerleave on the canvas
PointerUpKeeps ==
  /\ phase # "idle"
  /\ last' = Quiet("up")
  /\ UNCHANGED <<gameVars, envVars, resume>>
PointerUp ==
  /\ phase # "idle"
  /\ last' = Quiet("up")
  /\ pointerDown' = IF listening THEN FALSE ELSE pointerDown
  /\ UNCHANGED <<width, height, player, stars, pieces, bullets, particles, pointerX,
                 globalTime, lastShotAt, lastFrameAt, shakeMs, shakeIntensity, rafId,
                 isRunning, isGameOver, envVars, resume>>

\* a show-overlay timer fires: setOverlayVisible(true)
TimerFire(i) ==
  /\ i \in 1..Len(timers)
  /\ timers[i] <= clock
  /\ timers' = Without(timers, {i})
  /\ overlayVisible' = TRUE
  /\ last' = Quiet("timer")
  /\ UNCHANGED <<gameVars, phase, listening, clock, frameTs, hidden, innerSize,
                 pending, prefersReducedMotion, theme, resume>>

\* update(dtMs) for a game whose player exists: the stores, flags and timers
\* it leaves, and what it did.  now is performance.now(), rv the tick's draw
update(dtMs, now, rv) ==
  LET dt    == clampDelta(dtMs)
      p1    == followTarget(player, width)
      shoot == canShoot(isGameOver, pointerDown, now, lastShotAt)
      b0    == IF shoot THEN spawnBullet(bullets, p1, height) ELSE bullets
      colB  == moveBullets(b0, dt)
  IN LET hits == collide(Len(colB), colB, pieces, << >>)
     IN LET ps2 == splicePieces(pieces, hits)
            sh1 == IF hits # << >>
                     THEN triggerShake(shakeMs, prefersReducedMotion)
                     ELSE shakeMs
        IN [globalTime |-> globalTime + dt,
            player |-> p1,
            lastShotAt |-> IF shoot THEN now ELSE lastShotAt,
            bullets |-> spliceBullets(colB, hits),
            pieces |-> ps2,
            particles |-> updateParticles(particles \o explosions(1, hits, pieces, rv), dt),
            shakeMs |-> decayShake(sh1, dt),
            shakeIntensity |-> IF hits # << >> /\ ~prefersReducedMotion
                                 THEN shakeIntensityHit ELSE shakeIntensity,
            isGameOver |-> (isGameOver \/ victory(isGameOver, ps2)),
            armed |-> victory(isGameOver, ps2),
            dt |-> dt, fired |-> shoot, colB |-> colB, hits |-> hits,
            sounds |-> cues(hits)]

\* the browser runs the frame callback of handle h: loop(ts)
Loop(h, lag, rv) ==
  /\ h \in pending
  /\ ~hidden
  /\ clock - lag >= frameTs
  /\ lag = 0 \/ globalTime >= 0
  /\ frameTs' = clock - lag
  /\ IF ~loopRuns(isRunning)
       THEN /\ pending' = pending \ {h}
            /\ last' = Quiet("idle")
            /\ UNCHANGED <<gameVars, timers, resume>>
       ELSE
         /\ lastFrameAt' = clock - lag
         /\ IF player = NoPlayer
              THEN /\ last' = [Quiet("frame") EXCEPT !.base = lastFrameAt, !.ts = clock - lag]
                   /\ UNCHANGED <<player, globalTime, bullets, pieces, particles, lastShotAt,
                                  shakeMs, shakeIntensity, isGameOver, timers>>
              ELSE \E u \in {update(clock - lag - lastFrameAt, clock, rv)} :
                   /\ globalTime' = u.globalTime
                   /\ player' = u.player
                   /\ lastShotAt' = u.lastShotAt
                   /\ bullets' = u.bullets
                   /\ pieces' = u.pieces
                   /\ particles' = u.particles
                   /\ shakeMs' = u.shakeMs
                   /\ shakeIntensity' = u.shakeIntensity
                   /\ isGameOver' = u.isGameOver
                   /\ timers' = IF u.armed THEN Append(timers, clock + overlayDelayMs)
                                ELSE timers
                   /\ last' = [op |-> "frame", dt |-> u.dt, base |-> lastFrameAt,
                               ts |-> clock - lag, fired |-> u.fired, colB |-> u.colB,
                               colP |-> pieces, hits |-> u.hits, armed |-> u.armed,
                               resumed |-> resume.at >= 0, resumeAt |-> resume.at,
                               resumeReset |-> resume.reset,
                               resumePrev |-> resume.prev,
                               nPart |-> Len(particles), ctxOk |-> TRUE,
                               sounds |-> u.sounds, captured |-> TRUE]
         /\ \E nh \in {n \in 1..4 : /\ n \notin (pending \ {h}) \cup {rafId}
                                     /\ \A k \in 1..(n - 1) : k \in (pending \ {h}) \cup {rafId}} :
              /\ rafId' = nh
              /\ pending' = (pending \ {h}) \cup {nh}
         /\ resume' = NoResume
         /\ UNCHANGED <<width, height, stars, pointerX, pointerDown, isRunning>>
  /\ UNCHANGED <<phase, listening, clock, hidden, innerSize, overlayVisible,
                 prefersReducedMotion, theme>>

Next ==
  \/ \E d \in Steps : AdvanceTime(d, MaxClock)
  \/ \E ok \in BOOLEAN, rv \in RandVals : Start(ok, rv)
  \/ Stop
  \/ \E ok \in BOOLEAN, rv \in RandVals : Reset(ok, rv)
  \/ \E vp \in Viewports, ok \in BOOLEAN, rv \in RandVals : Resize(vp, ok, rv)
  \/ Hide
  \/ Show
  \/ \E cx \in ClientXs : PointerMove(cx)
  \/ \E cx \in ClientXs : PointerDown(cx)
  \/ PointerUp
  \/ \E i \in 1..MaxTimers + 1 : TimerFire(i)
  \/ \E h \in 1..4, lag \in FrameLags, rv \in RandVals : Loop(h, lag, rv)

Spec == Init /\ [][Next]_vars

\* scheduling: start, stop, reset, visibility, resize, frames and timers
InitSched == InitOf({<<60, 20>>}, BOOLEAN, {FALSE})
NextSched ==
  \/ \E d \in StepsSched : AdvanceTime(d, MaxClockSched)
  \/ Start(TRUE, 5)
  \/ Stop
  \/ Reset(TRUE, 5)
  \/ Resize(<<40, 30>>, TRUE, 5)
  \/ Hide
  \/ Show
  \/ \E h \in 1..4 : Loop(h, 0, 5)
SpecSched == InitSched /\ [][NextSched]_vars


\* winning: start, reset, resize, continuous fire, frames and the overlay's timer
InitWin == InitOf({<<60, 20>>}, {FALSE}, {FALSE})
NextWin ==
  \/ \E d \in StepsWin : AdvanceTime(d, MaxClockWin)
  \/ \E ok \in BOOLEAN : Start(ok, 5)
  \/ \E ok \in BOOLEAN : Reset(ok, 5)
  \/ \E ok \in BOOLEAN : Resize(<<60, 20>>, ok, 5)
  \/ PointerDown(30)
  \/ PointerUp
  \/ \E i \in 1..MaxTimers + 1 : TimerFire(i)
  \/ \E h \in 1..4 : Loop(h, 0, 0)
SpecWin == InitWin /\ [][NextWin]_vars

\* firing: continuous fire, frames, pauses and resizes between a narrow
\* viewport and a wide one whose text is out of the player's column
InitFire == InitOf({<<40, 30>>}, {FALSE}, {FALSE})
NextFire ==
  \/ \E d \in StepsFire : AdvanceTime(d, MaxClockFire)
  \/ Start(TRUE, 5)
  \/ \E vp \in {<<40, 30>>, <<100, 20>>}, rv \in {5, 9} : Resize(vp, TRUE, rv)
  \/ PointerDown(20)
  \/ PointerUp
  \/ Hide
  \/ Show
  \/ \E h \in 1..4 : Loop(h, 0, 0)
SpecFire == InitFire /\ [][NextFire]_vars

\* aiming: the pointer moves inside and outside the canvas while frames run
\* and the window changes between a viewport narrower than the player and a
\* wider one
InitAim == InitOf(Viewports, {FALSE}, {FALSE})
NextAim ==
  \/ \E d \in StepsSched : AdvanceTime(d, MaxClockAim)
  \/ Start(TRUE, 5)
  \/ \E vp \in Viewports : Resize(vp, TRUE, 5)
  \/ \E cx \in ClientXs : PointerMove(cx)
  \/ \E h \in 1..4 : Loop(h, 0, 0)
SpecAim == InitAim /\ [][NextAim]_vars

\* bursts: hits in the narrow viewport and the ticks that age the particles.
\* Time passes once the pointer is held and the frame of the current instant
\* has run, a frame may be stamped before the clock, and the page is hidden
\* right after a hit
InitDecay == InitOf({<<40, 30>>}, {FALSE}, {FALSE})
NextDecay ==
  \/ /\ pointerDown
     /\ hidden \/ \E lag \in FrameLags : frameTs = clock - lag
     /\ \E d \in StepsDecay : AdvanceTime(d, MaxClockDecay)
  \/ Start(TRUE, 5)
  \/ PointerDown(20)
  \/ last.op = "frame" /\ last.hits # << >> /\ Hide
  \/ Show
  \/ \E h \in 1..4, lag \in FrameLags : Loop(h, lag, 0)
SpecDecay == InitDecay /\ [][NextDecay]_vars

\* themes: the piece factory runs in start(), reset() and resizes on pages
\* whose style sets the hue properties, to 0 among other values, or not
InitHue == InitOfTheme(Viewports, {FALSE}, {FALSE}, Themes)
NextHue ==
  \/ \E rv \in HueDraws : Start(TRUE, rv)
  \/ \E rv \in HueDraws : Reset(TRUE, rv)
  \/ \E vp \in Viewports, rv \in HueDraws : Resize(vp, TRUE, rv)
SpecHue == InitHue /\ [][NextHue]_vars

\* pointer: presses, releases and moves on a game that runs, is reset and is
\* stopped
InitPointer == InitOf({<<60, 20>>}, {FALSE}, {FALSE})
NextPointer ==
  \/ \E d \in StepsSched : AdvanceTime(d, MaxClockAim)
  \/ Start(TRUE, 5)
  \/ Stop
  \/ Reset(TRUE, 5)
  \/ \E cx \in ClientXs : PointerMove(cx)
  \/ \E cx \in ClientXs : PointerDown(cx)
  \/ PointerUp
  \/ \E h \in 1..4 : Loop(h, 0, 0)
SpecPointer == InitPointer /\ [][NextPointer]_vars

\* target: the pointer moves and presses while the game runs, is reset and
\* the window changes size
InitTarget == InitOf(Viewports, {FALSE}, {FALSE})
NextTarget ==
  \/ Start(TRUE, 5)
  \/ Reset(TRUE, 5)
  \/ \E vp \in Viewports : Resize(vp, TRUE, 5)
  \/ \E cx \in ClientXs : PointerMove(cx)
  \/ \E cx \in ClientXs : PointerDown(cx)
  \/ \E h \in 1..4 : Loop(h, 0, 0)
SpecTarget == InitTarget /\ [][NextTarget]_vars

(* ------------------------------ claims --------------------------------- *)
\* C1: at every moment at most one frame callback is scheduled, for every
\* interleaving of start(), frames and visibility events, a page that is
\* hidden when start() runs included.
C1_SingleCallback == Cardinality(pending) <= 1

\* C2: once stop() has been called no frame runs update() or render(), no
\* frame callback is scheduled, and a callback that was still queued leaves
\* the entity stores as they are, whatever visibility or resize events follow.
C2_StopIsFinal ==
  [][phase = "stopped" =>
       /\ last'.op # "frame"
       /\ pending' \subseteq pending
       /\ (last'.op = "idle" =>
             UNCHANGED <<player, stars, pieces, bullets, particles>>)]_vars
\* a callback that was still queued when stop() ran has fired, as a no-op
C2_Witness == phase = "stopped" /\ last.op = "idle"

\* C8: update() never integrates more than maxDeltaMs, and the first frame
\* after the page is shown again measures its delta from the resume (from a
\* later reset() when one ran in between), never from the frame before hiding.
C8_ResumeDelta ==
  last.op = "frame" =>
    /\ last.dt <= maxDeltaMs
    /\ (last.resumed =>
          /\ last.base >= last.resumeAt
          /\ (~last.resumeReset =>
                /\ last.base = last.resumeAt
                /\ last.dt = Min(last.ts - last.resumeAt, maxDeltaMs)))
\* a first frame after a resume that came more than maxDeltaMs after the
\* frame before hiding, integrating the time since the resume only
C8_Witness ==
  /\ last.op = "frame" /\ last.resumed /\ ~last.resumeReset
  /\ last.resumeAt - last.resumePrev > maxDeltaMs
  /\ last.dt = last.ts - last.resumeAt
  /\ last.dt > 0

\* C4: between two (re)initializations isGameOver turns true at most once, in
\* the first tick that ends with no piece, and that tick arms the one
\* show-overlay timer; while the game is over no step but reset() clears the
\* flag and no later tick arms another timer.
C4_WinOnce ==
  [][/\ (~isGameOver /\ isGameOver' =>
           last'.op = "frame" /\ Len(pieces') = 0 /\ Len(timers') = Len(timers) + 1)
     /\ (~isGameOver /\ last'.op = "frame" /\ Len(pieces') = 0 => isGameOver')
     /\ (~isGameOver /\ ~isGameOver' => Len(timers') <= Len(timers))
     /\ (isGameOver /\ last'.op # "reset" =>
           isGameOver' /\ Len(timers') <= Len(timers))]_vars
\* a later tick of a game that is over, with no piece left and no new timer
C4_Witness ==
  /\ isGameOver /\ last.op = "frame" /\ ~last.armed
  /\ Len(pieces) = 0 /\ Len(timers) = 1 /\ Len(last.colP) = 0

\* C10: the overlay is visible only while the game is over, however reset()
\* interleaves with the pending show-overlay timer.
C10_OverlayOnlyWhenOver == overlayVisible => isGameOver

\* C3: in the collision phase of a tick every hit removes the bullet and the
\* piece of an overlapping pair; of every overlapping pair at least one of
\* the two is gone when the tick ends, and both are when the bullet overlaps
\* no other piece and the piece is overlapped by no other bullet; a bullet
\* removes at most one piece, and every removed piece spawns exactly one
\* burst, at its position and in its color.
C3_HitsRemovePairs ==
  [][last'.op = "frame" /\ player # NoPlayer =>
       LET B == last'.colB
           P == last'.colP
           H == last'.hits
           hitB == {H[k][1] : k \in 1..Len(H)}
           hitP == {H[k][2] : k \in 1..Len(H)}
           kept == Cardinality({i \in 1..Len(particles) :
                                  particles[i].age + last'.dt < particles[i].life})
           burst == SubSeq(particles', kept + 1, Len(particles'))
           size == IF Len(H) = 0 THEN 0 ELSE Len(burst) \div Len(H)
           dt == last'.dt
       IN /\ P = pieces
          /\ bullets' = Without(B, hitB)
          /\ pieces' = Without(P, hitP)
          /\ Cardinality(hitB) = Len(H) /\ Cardinality(hitP) = Len(H)
          /\ \A k \in 1..Len(H) : overlaps(B[H[k][1]], P[H[k][2]])
          /\ \A i \in 1..Len(B), j \in 1..Len(P) :
               overlaps(B[i], P[j]) =>
                 /\ i \in hitB \/ j \in hitP
                 /\ (/\ \A j2 \in 1..Len(P) : overlaps(B[i], P[j2]) => j2 = j
                     /\ \A i2 \in 1..Len(B) : overlaps(B[i2], P[j]) => i2 = i)
                    => i \in hitB /\ j \in hitP
          /\ Len(burst) = size * Len(H)
          /\ Len(H) > 0 => size >= burstMin
          /\ \A k \in 1..Len(H), m \in 1..size :
               LET pa == burst[(k - 1) * size + m]
                   vy0 == pa.vy - (gravity * U * dt) \div 1000
               IN /\ pa.age = dt
                  /\ pa.color = P[H[k][2]].color
                  /\ pa.x - (pa.vx * dt) \div 1000 = P[H[k][2]].x
                  /\ pa.y - (vy0 * dt) \div 1000 = P[H[k][2]].y]_vars
\* C3 as stated: every bullet and every piece of an overlapping pair is gone
\* when the tick ends
C3_AllPairsRemoved ==
  [][last'.op = "frame" =>
       \A i \in 1..Len(last'.colB), j \in 1..Len(last'.colP) :
         overlaps(last'.colB[i], last'.colP[j]) =>
           /\ i \in {last'.hits[k][1] : k \in 1..Len(last'.hits)}
           /\ \A n \in 1..Len(pieces') : pieces'[n] # last'.colP[j]]_vars
\* a tick in which one bullet overlapped two pieces and one of them is left
C3_Witness ==
  /\ last.op = "frame"
  /\ \E i \in 1..Len(last.colB), j, k \in 1..Len(last.colP) :
       /\ j # k
       /\ overlaps(last.colB[i], last.colP[j])
       /\ overlaps(last.colB[i], last.colP[k])
       /\ \E n \in 1..Len(pieces) : pieces[n] \in {last.colP[j], last.colP[k]}

\* C5: the number of pieces never grows from one step to the next, except
\* in start(), reset() and a resize, which build the piece set anew.
C5_GrowsOnlyWhenRebuilt ==
  [][last'.op \notin {"start", "reset", "resize"} => Len(pieces') <= Len(pieces)]_vars
\* C5 as stated: within a session, resizes included, the number never grows
C5_NeverGrows ==
  [][last'.op \notin {"start", "reset"} => Len(pieces') <= Len(pieces)]_vars
\* a tick that removed a piece of a set a resize had rebuilt
C5_Witness ==
  /\ last.op = "frame" /\ Len(pieces) < Len(last.colP)
  /\ last.colP[1].r = radiusMin * U + 9 * radiusRand

C7_PlayerClamped ==
  last.op = "frame" /\ player # NoPlayer =>
    /\ player.x >= player.w \div 2
    /\ width * U >= player.w => player.x <= width * U - player.w \div 2
    /\ width * U < player.w => player.x = player.w \div 2
\* C7 as stated: x is within [w/2, width - w/2] after every update
C7_PlayerInRange ==
  last.op = "frame" /\ player # NoPlayer =>
    /\ player.x >= player.w \div 2
    /\ player.x <= width * U - player.w \div 2
\* the pointer is left of the canvas and the player stands at the left limit
C7_Witness ==
  /\ last.op = "frame" /\ player # NoPlayer
  /\ player.targetX < 0
  /\ width * U >= player.w
  /\ player.x = player.w \div 2

\* C9: after a resize no entity keeps a position outside the new viewport:
\* the player and its target, the stars, the pieces, the bullets and the
\* particles lie within [0, width] x [0, height].
C9_ResizeKeepsInBounds ==
  last.op = "resize" /\ player # NoPlayer =>
    LET inX(x) == 0 <= x /\ x <= width * U
        inY(y) == 0 <= y /\ y <= height * U
    IN /\ inX(player.x) /\ inY(player.y) /\ inX(player.targetX)
       /\ \A i \in 1..Len(stars) : inX(stars[i].x) /\ inY(stars[i].y)
       /\ \A i \in 1..Len(pieces) : inX(pieces[i].x) /\ inY(pieces[i].y)
       /\ \A i \in 1..Len(bullets) : inX(bullets[i].x) /\ inY(bullets[i].y)
       /\ \A i \in 1..Len(particles) : inX(particles[i].x) /\ inY(particles[i].y)

\* C11: right after reset() the bullets and the particles are empty, the
\* piece set is the one the factory builds for the current size (empty when
\* the offscreen context fails), isGameOver is false, the shake, the held
\* flag, globalTime and the shot timer are cleared, the player and its target
\* are at width/2; the running flag, the frame handle and the scheduled
\* callbacks are the ones before reset().
C11_ResetReinitializes ==
  [][last'.op = "reset" =>
       /\ bullets' = << >> /\ particles' = << >>
       /\ \E ok \in BOOLEAN, rv \in RandVals :
            pieces' = create404Pieces(width', height', ok, rv)
       /\ ~isGameOver' /\ shakeMs' = 0 /\ ~pointerDown'
       /\ globalTime' = 0 /\ lastShotAt' = 0
       /\ player' # NoPlayer
       /\ 2 * player'.x = width' * U /\ player'.targetX = player'.x
       /\ UNCHANGED <<isRunning, rafId, pending, width, height>>]_vars
\* reset() has run on a game that was won and whose pointer was held: the
\* show-overlay timer of the win is still pending and the pieces are back
C11_Witness ==
  /\ last.op = "reset" /\ Len(timers) > 0
  /\ Len(pieces) > 0 /\ bullets = << >> /\ isRunning /\ rafId \in pending

\* C12: after a tick every particle in the store has age < life and alpha
\* 1 - age/life; a particle is removed in exactly the tick at whose end its
\* age reaches its life, and no younger one is removed; the alpha of a
\* particle that stays is smaller than before the tick when the tick's delta
\* is positive, the same when it is zero and larger when it is negative.
C12_ParticleDecay ==
  [][last'.op = "frame" /\ player # NoPlayer =>
       \E dt \in {last'.dt} :
       \E old \in {SelectSeq(particles, LAMBDA pa : pa.age + dt < pa.life)} :
       \E n \in {Len(old)} :
          /\ Len(particles') >= n
          /\ \A k \in 1..Len(particles') :
               \E b \in {particles'[k]} :
                  /\ b.age < b.life
                  /\ b.alpha = (1000 * (b.life - b.age)) \div b.life
                  /\ k > n => b.age = dt
                  /\ k <= n =>
                       \E a \in {old[k]} :
                          /\ b.age = a.age + dt /\ b.life = a.life
                          /\ dt > 0 => b.alpha < a.alpha
                          /\ dt = 0 => b.alpha = a.alpha
                          /\ dt < 0 => b.alpha > a.alpha]_vars
\* C12 as stated: every tick makes the alpha of a particle that stays
\* strictly smaller
C12_AlphaStrictlyDecreases ==
  [][last'.op = "frame" /\ player # NoPlayer =>
       LET old == SelectSeq(particles, LAMBDA pa : pa.age + last'.dt < pa.life)
       IN /\ Len(particles') >= Len(old)
          /\ \A k \in 1..Len(old) : particles'[k].alpha < old[k].alpha]_vars
\* a tick without a hit that removed the particles of one burst, whose age
\* reached their life, and kept the faded ones of a younger burst
C12_Witness ==
  /\ last.op = "frame" /\ last.hits = << >> /\ last.dt > 0
  /\ Len(particles) < last.nPart
  /\ \E i \in 1..Len(particles) :
       particles[i].age > last.dt /\ particles[i].alpha < 1000

\* C13: every piece has its hue inside the arc the page style configures,
\* a property set to 0 included: [min, max] when min <= max, [min, 360) or
\* [0, max] when min > max; a default stands in only for an absent property.
C13_HueInConfiguredArc ==
  LET lo == IF theme.min = << >> THEN hueMinDefault ELSE theme.min[1]
      hi == IF theme.max = << >> THEN hueMaxDefault ELSE theme.max[1]
  IN \A i \in 1..Len(pieces) :
       LET c == pieces[i].color
       IN IF lo <= hi THEN lo <= c /\ c <= hi
          ELSE (lo <= c /\ c < 360) \/ (0 <= c /\ c <= hi)

\* C14: the visibility-hidden event of a started game leaves no frame
\* callback scheduled and clears no entity; until the page is shown again
\* none is scheduled and no frame runs update().
C14_HiddenLoopIdle ==
  [][/\ last'.op = "hide" /\ phase = "started" =>
          /\ pending' = {}
          /\ UNCHANGED <<player, bullets, pieces, particles, shakeMs,
                         shakeIntensity, isGameOver>>
     /\ hidden' => last'.op # "frame"
     /\ hidden /\ hidden' /\ phase = "started" /\ pending = {} => pending' = {}]_vars

\* C15: when the offscreen context cannot be created in start(), reset() or
\* a resize, the piece set is empty afterwards; start() still attaches the
\* listeners and schedules the first frame, and every tick of a running game
\* ends with the next frame scheduled, one callback for the one it consumed.
C15_NoContextNoCrash ==
  [][/\ last'.op \in {"start", "reset"} /\ ~last'.ctxOk => pieces' = << >>
     /\ last'.op = "resize" /\ ~last'.ctxOk /\ listening => pieces' = << >>
     /\ last'.op = "start" =>
          listening' /\ isRunning' /\ rafId' \in pending' /\ rafId' \notin pending
     /\ last'.op = "frame" =>
          /\ rafId' \in pending'
          /\ Cardinality(pending') = Cardinality(pending)]_vars
\* a tick of a game whose piece set was built empty: it finds no piece, wins
\* at once and schedules the next frame
C15_Witness ==
  /\ last.op = "frame" /\ last.armed /\ last.colP = << >> /\ last.hits = << >>
  /\ pieces = << >> /\ rafId \in pending

\* C16: in every tick a bullet destroys at most one piece, and the pieces
\* the tick removes are as many as the bullets it removes by collision, as
\* the bursts it spawns and as the audio cues it triggers.
C16_HitCounts ==
  [][last'.op = "frame" /\ player # NoPlayer =>
       LET goneP == Len(pieces) - Len(pieces')
           goneB == Len(last'.colB) - Len(bullets')
           kept  == Cardinality({i \in 1..Len(particles) :
                                   particles[i].age + last'.dt < particles[i].life})
           fresh == Len(particles') - kept
           H == last'.hits
       IN /\ goneP >= 0 /\ goneP = goneB /\ goneP = last'.sounds
          /\ goneP = Len(H)
          /\ \A k, n \in 1..Len(H) : k # n => H[k][1] # H[n][1] /\ H[k][2] # H[n][2]
          /\ IF goneP = 0 THEN fresh = 0
             ELSE \E size \in burstMin..(burstMin + 9) : fresh = size * goneP]_vars
\* a tick in which two bullets overlapped one piece: one piece, one bullet,
\* one burst and one cue
C16_Witness ==
  /\ last.op = "frame" /\ Len(last.hits) = 1 /\ last.sounds = 1
  /\ Len(pieces) = Len(last.colP) - 1
  /\ \E i, k \in 1..Len(last.colB) :
       /\ i # k
       /\ overlaps(last.colB[i], last.colP[last.hits[1][2]])
       /\ overlaps(last.colB[k], last.colP[last.hits[1][2]])

\* C17: on a started game a pointer-down sets the held flag, and the target
\* to the pointer's x, whether the capture succeeds or fails; a pointer-up,
\* -cancel or -leave and reset() clear the flag; no other step, a
\* pointer-move included, changes it.
C17_HeldFlag ==
  [][phase = "started" /\ phase' = "started" =>
       /\ last'.op = "down" =>
            /\ pointerDown'
            /\ player'.targetX = pointerX'
            /\ UNCHANGED <<bullets, pieces, isGameOver, rafId, pending>>
       /\ last'.op \in {"up", "reset"} => ~pointerDown'
       /\ last'.op \notin {"down", "up", "reset"} => pointerDown' = pointerDown]_vars
\* a press whose pointer capture failed: the flag is set and the target is
\* the pointer's x, here right of the canvas
C17_Witness ==
  /\ phase = "started" /\ last.op = "down" /\ ~last.captured
  /\ pointerDown /\ player.targetX = pointerX /\ pointerX > width * U

\* C18: in every tick each bullet's y decreases by its speed times the
\* clamped delta; the bullets whose circle is wholly above the top edge are
\* removed before the collision phase, which works on the others only, so
\* after every update every bullet in the store has y + r >= 0.
C18_BulletFlight ==
  [][last'.op = "frame" /\ player # NoPlayer =>
       LET dt == last'.dt
           B == last'.colB
           moved == [i \in 1..Len(bullets) |->
                       [bullets[i] EXCEPT !.y = bullets[i].y - ((-bullets[i].vy) * dt) \div 1000]]
           stay == SelectSeq(moved, LAMBDA b : b.y + b.r >= 0)
       IN /\ Len(B) >= Len(stay)
          /\ SubSeq(B, 1, Len(stay)) = stay
          /\ Len(B) - Len(stay) <= (IF last'.fired THEN 1 ELSE 0)
          /\ \A i \in (Len(stay) + 1)..Len(B) :
               /\ B[i].x = player'.x
               /\ B[i].y = (player'.y - player'.h \div 2) - ((-B[i].vy) * dt) \div 1000
          /\ \A k \in 1..Len(last'.hits) : last'.hits[k][1] \in 1..Len(B)
          /\ \A i \in 1..Len(B) : B[i].y + B[i].r >= 0
          /\ \A i \in 1..Len(bullets') :
               /\ bullets'[i].y + bullets'[i].r >= 0
               /\ \E n \in 1..Len(B) : B[n] = bullets'[i]]_vars
\* a tick of the full delta in which the bullet just fired crossed the top
\* edge and was removed, so that the collision phase saw no bullet
C18_Witness ==
  /\ last.op = "frame" /\ last.fired /\ last.dt = maxDeltaMs
  /\ last.colB = << >> /\ bullets = << >> /\ Len(pieces) > 0

\* C19: the remaining shake duration is always within [0, shakeDurationMs].
C19_ShakeInRange == 0 <= shakeMs /\ shakeMs <= shakeDurationMs

\* C20: whenever the game-over flag is true the piece set is empty.
C20_GameOverNoPieces == isGameOver => Len(pieces) = 0

\* C21: the delta update() integrates is within [0, maxDeltaMs] in every
\* frame, whatever the frame's timestamp is relative to the stored baseline.
C21_DeltaInRange ==
  last.op = "frame" => 0 <= last.dt /\ last.dt <= maxDeltaMs

\* C22: whenever the player exists its target-x equals the stored pointer x,
\* after start(), pointer-moves, presses, reset() and resizes in any order.
C22_TargetIsPointer == player # NoPlayer => player.targetX = pointerX
\* after a resize to the narrow viewport the target is still the pointer's
\* x, which the pointer left right of the wider canvas
C22_Witness ==
  /\ last.op = "resize" /\ player # NoPlayer
  /\ width = 40 /\ pointerX > 600
  /\ player.targetX = pointerX

====
